---- MODULE Spec2Model ----
(***************************************************************************)
(* A model of the two shared components of the SocialSync server:          *)
(*                                                                         *)
(*  - the database connection pool behind get_db_connection /              *)
(*    release_db_connection (server/fastapi_server.py), used by            *)
(*    init_database at start-up and by every route handler;                *)
(*  - the WebSocketManager registry (server/websocket_manager.py).         *)
(*                                                                         *)
(* Concurrency is asyncio's: one task runs at a time and control changes   *)
(* hands only at an await that suspends.  Every action below is therefore  *)
(* one run of a coroutine from one suspension point to the next.           *)
(***************************************************************************)
EXTENDS Integers, Sequences, FiniteSets, TLC

(***************************************************************************)
(* Bounds of the model.                                                    *)
(***************************************************************************)
\* Number of concurrent request-handling tasks.
NumTasks == 4
\* The pool's ceiling.  The source passes max_size=10
\* (fastapi_server.py:102); the model runs the same pool with a smaller
\* ceiling so that exhaustion is reached by NumTasks tasks.
max_size == 2

\* db_pool = None (fastapi_server.py:33); pool objects are numbered from 1.
None == 0
\* The start-up task running init_database under lifespan.
InitTask == 0

Requests == 1..NumTasks
Tasks == {InitTask} \cup Requests
\* Every task creates at most one pool object.
PoolIds == 1..(NumTasks + 1)
Slots == 1..max_size

NoConn == [pool |-> None, slot |-> 0]
Conn(p, k) == [pool |-> p, slot |-> k]

VARIABLES
    db_pool,    \* the module global db_pool: None or a pool object
    npools,     \* number of pool objects created so far
    free,       \* free[p]: pool p's queue of idle connection holders (LIFO)
    pc,         \* pc[t]: where task t is suspended
    held,       \* held[t]: the connection in task t's local variable conn
    wait_pool,  \* wait_pool[t]: the pool in whose acquire() t is suspended
    res         \* res[t]: how task t's coroutine ended

poolVars == <<db_pool, npools, free, pc, held, wait_pool, res>>

VARIABLES
    shut,       \* where fastapi_server's lifespan is: "running", suspended
                \* in db_pool.close() ("closing"), or past its shutdown
                \* step ("done")
    closed,     \* the pool objects whose close() has been called
    engine_open,\* connections open in the pool of database.py's engine
    main_pc     \* where main.py's lifespan is

lifeVars == <<shut, closed, engine_open, main_pc>>

VARIABLES
    active_connections, \* WebSocketManager.active_connections, a list
    call    \* call[t]: the method call registry task t is in (see Fresh)

VARIABLES
    progress_data,  \* WebSocketManager.progress_data, a dict
    hist            \* the last calls made on the progress store (see Entry)

progVars == <<progress_data, hist>>

VARIABLES
    ep      \* ep[c]: the /ws endpoint handler run for websocket c

wsVars == <<active_connections, call, progress_data, hist, ep>>

VARIABLES
    users,          \* the rows of the table users, in insertion order
    unique_email,   \* whether the table refuses a second row of an email
                    \* (known once a server has started)
    started,        \* the server whose start-up has run ("no" for none)
    req             \* req[t]: the login or signup request task t handles

authVars == <<users, unique_email, started, req>>

vars == <<db_pool, npools, free, pc, held, wait_pool, res,
          shut, closed, engine_open, main_pc,
          active_connections, call, progress_data, hist, ep,
          users, unique_email, started, req>>

(***************************************************************************)
(* The pool object (asyncpg.Pool as created at fastapi_server.py:102).     *)
(* Its holders sit in a LIFO queue: acquire() takes the last one put and   *)
(* suspends while the queue is empty; release() puts the holder back.      *)
(***************************************************************************)
NewQueue == [k \in Slots |-> k]

QueueTop(q) == q[Len(q)]

QueueGetPeeks(q) == q

\* The queue after acquire() took a holder from it.
QueueGet(q) == SubSeq(q, 1, Len(q) - 1)

QueuePut(q, k) == Append(q, k)

\* Connections of pool p that are out of its queue (acquired, not released).
InUse(p) == max_size - Len(free[p])

RECURSIVE SumInUse(_)
SumInUse(n) == IF n = 0 THEN 0 ELSE InUse(n) + SumInUse(n - 1)

\* Connections in use at the same time, over every pool object created.
InUseTotal == SumInUse(npools)

(***************************************************************************)
(* db_pool.acquire(), from the read of the global db_pool to the first     *)
(* suspension: with an idle holder the caller gets it at once; otherwise   *)
(* the caller is suspended in that pool's queue.  fr is the queue map the  *)
(* call starts from.                                                       *)
(***************************************************************************)
Acquire(t, p, fr) ==
    IF fr[p] # << >>
    THEN /\ free' = [fr EXCEPT ![p] = QueueGet(fr[p])]
         /\ held' = [held EXCEPT ![t] = Conn(p, QueueTop(fr[p]))]
         /\ pc' = [pc EXCEPT ![t] = "holding"]
         /\ wait_pool' = [wait_pool EXCEPT ![t] = None]
    ELSE /\ free' = fr
         /\ held' = held
         /\ pc' = [pc EXCEPT ![t] = "waiting"]
         /\ wait_pool' = [wait_pool EXCEPT ![t] = p]

(***************************************************************************)
(* get_db_connection up to its first suspension.  Requests are served      *)
(* only after lifespan's start-up step (init_database) has returned.  The  *)
(* acquire() of a pool whose close() has been called raises                *)
(* (asyncpg: InterfaceError, "pool is closing" / "pool is closed").        *)
(***************************************************************************)
GetDbConnection(t) ==
    /\ pc[t] = "idle"
    /\ t = InitTask \/ pc[InitTask] = "done"
    /\ IF db_pool = None
       THEN /\ pc' = [pc EXCEPT ![t] = "creating"]
            /\ UNCHANGED <<free, held, wait_pool, res>>
       ELSE IF db_pool \in closed
       THEN /\ pc' = [pc EXCEPT ![t] = "done"]
            /\ res' = [res EXCEPT ![t] = "pool_closed"]
            /\ UNCHANGED <<free, held, wait_pool>>
       ELSE /\ Acquire(t, db_pool, free)
            /\ UNCHANGED res
    /\ UNCHANGED <<db_pool, npools>>
    /\ UNCHANGED <<lifeVars, wsVars, authVars>>

(***************************************************************************)
(* asyncpg.create_pool returns: the task assigns the new pool to db_pool   *)
(* and goes on to db_pool.acquire().                                       *)
(***************************************************************************)
CreatePoolReturns(t) ==
    /\ pc[t] = "creating"
    /\ npools' = npools + 1
    /\ db_pool' = npools + 1
    /\ Acquire(t, npools + 1, [free EXCEPT ![npools + 1] = NewQueue])
    /\ UNCHANGED res
    /\ UNCHANGED <<lifeVars, wsVars, authVars>>

(***************************************************************************)
(* asyncpg.create_pool raises (the database cannot be reached): db_pool    *)
(* stays as it was.  In a handler the exception leaves the handler; in     *)
(* init_database it is caught and printed.                                 *)
(***************************************************************************)
CreatePoolRaises(t) ==
    /\ pc[t] = "creating"
    /\ pc' = [pc EXCEPT ![t] = "done"]
    /\ res' = [res EXCEPT ![t] = "error"]
    /\ UNCHANGED <<db_pool, npools, free, held, wait_pool>>
    /\ UNCHANGED <<lifeVars, wsVars, authVars>>

(***************************************************************************)
(* A task suspended in acquire() resumes once its pool has an idle holder. *)
(***************************************************************************)
AcquireResumes(t) ==
    /\ pc[t] = "waiting"
    /\ free[wait_pool[t]] # << >>
    /\ Acquire(t, wait_pool[t], free)
    /\ UNCHANGED <<db_pool, npools, res>>
    /\ UNCHANGED <<lifeVars, wsVars, authVars>>

(***************************************************************************)
(* The task suspended in "await db_pool.acquire()" is cancelled (its       *)
(* request was abandoned): CancelledError is raised at the await and       *)
(* leaves get_db_connection.  In a handler "conn = await                   *)
(* get_db_connection()" stands before the try, so no finally runs; in      *)
(* init_database "except Exception" does not catch it.  The queue get the  *)
(* task was suspended in is abandoned: the waiter goes, the queue keeps    *)
(* its holders.                                                            *)
(***************************************************************************)
AbandonedGetTakes(fr, p) ==
    IF fr[p] # << >> THEN [fr EXCEPT ![p] = QueueGet(@)] ELSE fr

\* The queues after the get of a task suspended on pool p was abandoned.
AbandonedGet(fr, p) == fr

AcquireCancelled(t) ==
    /\ pc[t] = "waiting"
    /\ pc' = [pc EXCEPT ![t] = "done"]
    /\ res' = [res EXCEPT ![t] = "cancelled"]
    /\ wait_pool' = [wait_pool EXCEPT ![t] = None]
    /\ free' = AbandonedGet(free, wait_pool[t])
    /\ UNCHANGED <<db_pool, npools, held>>
    /\ UNCHANGED <<lifeVars, wsVars, authVars>>

(***************************************************************************)
(* release_db_connection(conn): db_pool.release(conn) on whatever pool     *)
(* the global names now.  A pool refuses a connection that is not its own  *)
(* (InterfaceError) and leaves it where it is; its own it puts back.       *)
(* The caller's variable conn goes out of scope either way.                *)
(***************************************************************************)
ReleaseAccepted(t) == held[t].pool = db_pool

ReleaseDbConnection(t) ==
    /\ free' = IF ReleaseAccepted(t)
               THEN [free EXCEPT ![held[t].pool] = QueuePut(@, held[t].slot)]
               ELSE free
    /\ held' = [held EXCEPT ![t] = NoConn]

(***************************************************************************)
(* A route handler (login, signup, get_stats, ...): its statements run in  *)
(* try and release_db_connection runs in finally, whether they returned    *)
(* or raised.  An exception raised by the release in finally is the one    *)
(* that leaves the handler.                                                *)
(***************************************************************************)
HandlerFinishes(t) ==
    /\ t \in Requests
    /\ pc[t] = "holding"
    /\ \E ok \in BOOLEAN :
          res' = [res EXCEPT ![t] =
                     IF ~ReleaseAccepted(t) THEN "release_error"
                     ELSE IF ok THEN "ok" ELSE "error"]
    /\ ReleaseDbConnection(t)
    /\ pc' = [pc EXCEPT ![t] = "done"]
    /\ UNCHANGED <<db_pool, npools, wait_pool>>
    /\ UNCHANGED <<lifeVars, wsVars, authVars>>

(***************************************************************************)
(* init_database: release_db_connection is the last statement of the try   *)
(* body, so it runs only when every statement before it returned.  An      *)
(* exception is caught by "except Exception" and printed.                  *)
(***************************************************************************)
InitDatabaseReturns ==
    /\ pc[InitTask] = "holding"
    /\ ReleaseDbConnection(InitTask)
    /\ pc' = [pc EXCEPT ![InitTask] = "done"]
    /\ res' = [res EXCEPT ![InitTask] =
                  IF ReleaseAccepted(InitTask) THEN "ok" ELSE "release_error"]
    /\ UNCHANGED <<db_pool, npools, wait_pool>>
    /\ UNCHANGED <<lifeVars, wsVars, authVars>>

InitDatabaseRaises ==
    /\ pc[InitTask] = "holding"
    /\ pc' = [pc EXCEPT ![InitTask] = "done"]
    /\ held' = [held EXCEPT ![InitTask] = NoConn]
    /\ res' = [res EXCEPT ![InitTask] = "error"]
    /\ UNCHANGED <<db_pool, npools, free, wait_pool>>
    /\ UNCHANGED <<lifeVars, wsVars, authVars>>

(***************************************************************************)
(* lifespan of fastapi_server.py, after its yield:                         *)
(*     if db_pool: await db_pool.close()                                   *)
(* The server runs this step once the start-up step has returned and the   *)
(* handlers it was running have ended.  close() marks the pool as closing, *)
(* is suspended until every connection of the pool has been released, and  *)
(* then closes them.  The global db_pool is not assigned.                  *)
(***************************************************************************)
Quiescent == \A t \in Requests : pc[t] \in {"idle", "done"}

ShutdownCalled ==
    /\ shut = "running"
    /\ pc[InitTask] = "done"
    /\ Quiescent
    /\ IF db_pool = None
       THEN /\ shut' = "done"
            /\ UNCHANGED closed
       ELSE /\ shut' = "closing"
            /\ closed' = closed \cup {db_pool}
    /\ UNCHANGED <<poolVars, engine_open, main_pc, wsVars, authVars>>

CloseReturns ==
    /\ shut = "closing"
    /\ InUse(db_pool) = 0
    /\ shut' = "done"
    /\ UNCHANGED <<poolVars, closed, engine_open, main_pc, wsVars, authVars>>

\* The pool objects that still have open connections once lifespan is past
\* its shutdown step.
OpenPools == (1..npools) \ closed

(***************************************************************************)
(* lifespan of main.py, whose data access goes through the engine of       *)
(* database.py.  Start-up awaits database.init_database, which opens a     *)
(* session (a pooled connection, given back to the engine's pool and kept  *)
(* open there when the session ends) and re-raises what goes wrong.  Each  *)
(* request's get_db session uses a pooled connection, a new one when the   *)
(* others are busy.  After the yield the shutdown step is "pass".          *)
(***************************************************************************)
\* Most connections the model lets the engine's pool open.
MaxEngineConns == 2

MainInitDatabaseReturns ==
    /\ main_pc = "starting"
    /\ main_pc' = "serving"
    /\ engine_open' = 1
    /\ UNCHANGED <<poolVars, shut, closed, wsVars, authVars>>

MainInitDatabaseRaises ==
    /\ main_pc = "starting"
    /\ main_pc' = "failed"
    /\ \E n \in {0, 1} : engine_open' = n
    /\ UNCHANGED <<poolVars, shut, closed, wsVars, authVars>>

MainGetDb ==
    /\ main_pc = "serving"
    /\ engine_open < MaxEngineConns
    /\ engine_open' = engine_open + 1
    /\ UNCHANGED <<poolVars, shut, closed, main_pc, wsVars, authVars>>

MainShutdown ==
    /\ main_pc = "serving"
    /\ main_pc' = "done"
    /\ UNCHANGED <<poolVars, shut, closed, engine_open, wsVars, authVars>>

(***************************************************************************)
(* WebSocketManager (server/websocket_manager.py).  The registry tasks     *)
(* are the callers of its methods; a task runs one method call at a time   *)
(* and may start another once the call has returned or raised.             *)
(***************************************************************************)
\* Bounds of the registry model.
NumWsTasks == 2
NumChans == 2
\* Longest registry the model lets connect build.
MaxReg == 3

WsTasks == 1..NumWsTasks
Chans == 1..NumChans

Range(s) == {s[i] : i \in 1..Len(s)}

RemoveNothing(s, c) == s

\* list.remove(c) guarded by "c in list": the first occurrence of c goes,
\* the other entries keep their order.
RECURSIVE RemoveFirst(_, _)
RemoveFirst(s, c) ==
    IF s = << >> THEN << >>
    ELSE IF Head(s) = c THEN Tail(s)
    ELSE <<Head(s)>> \o RemoveFirst(Tail(s), c)

ReappendAll(reg, d) == reg \o d

\* "for connection in disconnected: await self.disconnect(connection)".
\* disconnect awaits nothing, so the loop runs without a suspension.
RECURSIVE DisconnectAll(_, _)
DisconnectAll(reg, d) ==
    IF d = << >> THEN reg
    ELSE DisconnectAll(RemoveFirst(reg, Head(d)), Tail(d))

CatchesOnlyNothing(ok) == ok

\* broadcast's "try: await connection.send_text(message) / except
\* Exception": whether the loop goes on after a send that ended ok or not.
BroadcastCatches(ok) == TRUE

(***************************************************************************)
(* The frame of a method call and what its caller and the channels saw of  *)
(* it.  Of the coroutine: pc (where it is suspended), op (the method), arg *)
(* (its websocket argument, 0 for none), idx (the position of broadcast's  *)
(* list iterator), cur (broadcast's loop variable connection),             *)
(* disconnected (broadcast's local list) and res (how the call ended for   *)
(* its caller).  Of the observer of a broadcast: log (the send_text calls  *)
(* it made, each with its outcome), solo (no other task ran during the     *)
(* call), start_reg (the registry when the call started, kept while the    *)
(* call is alone), end_reg (the registry when the call ended), stayed (the *)
(* channels registered throughout the call) and nodup (no handle was       *)
(* registered twice at any moment of the call).                            *)
(***************************************************************************)
Fresh ==
    [pc |-> "idle", op |-> "none", arg |-> 0, idx |-> 0, cur |-> 0,
     disconnected |-> << >>, res |-> "none", log |-> << >>,
     start_reg |-> << >>, end_reg |-> << >>, stayed |-> {}, solo |-> TRUE,
     nodup |-> TRUE]

NoDup(s) == \A i, j \in 1..Len(s) : i # j => s[i] # s[j]

Running(u) == call[u].pc \notin {"idle", "done"}

\* What a step of another task, leaving the registry as reg, does to the
\* record of task u.  A frame dies when its coroutine ends: the record of
\* an ended call is kept for the state it ended in only.
Observed(u, reg) ==
    IF ~Running(u) THEN Fresh
    ELSE IF call[u].op = "broadcast"
    THEN [call[u] EXCEPT !.solo = FALSE, !.start_reg = << >>,
                         !.stayed = @ \cap Range(reg),
                         !.nodup = @ /\ NoDup(reg)]
    ELSE [call[u] EXCEPT !.solo = FALSE]

\* Task t runs to its next suspension, with rec its frame and reg the
\* registry then.
Step(t, rec, reg) ==
    /\ call' = [u \in WsTasks |-> IF u = t THEN rec ELSE Observed(u, reg)]
    /\ active_connections' = reg
    /\ UNCHANGED <<poolVars, lifeVars, authVars, progVars, ep>>

\* A method call starts.
Called(op, c) ==
    IF op = "broadcast"
    THEN [Fresh EXCEPT !.op = op, !.start_reg = active_connections,
                       !.stayed = Range(active_connections),
                       !.nodup = NoDup(active_connections)]
    ELSE [Fresh EXCEPT !.op = op, !.arg = c]

\* A method call ends with res for its caller, leaving the registry as reg.
Ended(rec, r, reg) ==
    [rec EXCEPT !.pc = "done", !.res = r,
                !.end_reg = IF rec.op = "broadcast" THEN reg ELSE << >>]

(***************************************************************************)
(* connect(websocket): suspended in websocket.accept(); when accept        *)
(* returns the handle is appended, when it raises connect raises.          *)
(***************************************************************************)
ConnectCalled(t, c) ==
    /\ ~Running(t)
    /\ Step(t, [Called("connect", c) EXCEPT !.pc = "accepting"],
            active_connections)

AcceptReturns(t) ==
    /\ call[t].pc = "accepting"
    /\ Len(active_connections) < MaxReg
    /\ LET reg == Append(active_connections, call[t].arg)
       IN  Step(t, Ended(call[t], "returned", reg), reg)

AcceptRaises(t) ==
    /\ call[t].pc = "accepting"
    /\ Step(t, Ended(call[t], "raised", active_connections),
            active_connections)

(***************************************************************************)
(* disconnect(websocket): no await in its body, so it runs in one step.    *)
(***************************************************************************)
Disconnect(t, c) ==
    /\ ~Running(t)
    /\ LET reg == RemoveFirst(active_connections, c)
       IN  Step(t, Ended(Called("disconnect", c), "returned", reg), reg)

(***************************************************************************)
(* send_personal_message(message, websocket): suspended in send_text; an   *)
(* exception is caught, printed, and the handle disconnected.  The method  *)
(* returns None either way.                                                *)
(***************************************************************************)
SendPersonalMessageCalled(t, c) ==
    /\ ~Running(t)
    /\ Step(t, [Called("send_personal_message", c) EXCEPT !.pc = "sp_send"],
            active_connections)

PersonalSendEnds(t) ==
    /\ call[t].pc = "sp_send"
    /\ \E ok \in BOOLEAN :
          LET rec == [call[t] EXCEPT !.log = Append(@, <<call[t].arg, ok>>)]
              reg == IF ok THEN active_connections
                     ELSE RemoveFirst(active_connections, call[t].arg)
          IN  Step(t, Ended(rec, "returned", reg), reg)

(***************************************************************************)
(* broadcast(message).  The for loop iterates the list object itself: its  *)
(* iterator keeps a position, yields active_connections[position] while    *)
(* the position is inside the list as it is at that moment, and advances.  *)
(* The task is suspended in each send_text.                                *)
(***************************************************************************)
\* The loop asks its iterator for the next connection: either the body
\* starts a send, or the loop is over, the second loop disconnects and the
\* call returns.
BroadcastNext(t, rec) ==
    IF rec.idx < Len(active_connections)
    THEN Step(t, [rec EXCEPT !.pc = "bc_send", !.idx = @ + 1,
                             !.cur = active_connections[rec.idx + 1]],
              active_connections)
    ELSE LET reg == DisconnectAll(active_connections, rec.disconnected)
         IN  Step(t, Ended([rec EXCEPT !.cur = 0], "returned", reg), reg)

BroadcastCalled(t) ==
    /\ ~Running(t)
    /\ BroadcastNext(t, Called("broadcast", 0))

\* The exception of a failed send leaves broadcast: nothing after the loop
\* body runs.
BroadcastRaises(t, rec) ==
    Step(t, Ended(rec, "raised", active_connections), active_connections)

BroadcastSendEnds(t) ==
    /\ call[t].pc = "bc_send"
    /\ \E ok \in BOOLEAN :
          LET rec == [call[t] EXCEPT
                         !.log = Append(@, <<call[t].cur, ok>>),
                         !.disconnected =
                             IF ok THEN @ ELSE Append(@, call[t].cur)]
          IN  IF BroadcastCatches(ok)
              THEN BroadcastNext(t, rec)
              ELSE BroadcastRaises(t, rec)

(***************************************************************************)
(* websocket_endpoint(websocket), the /ws handler (main.py:89-99 and,      *)
(* the same text, fastapi_server.py:489-497).  The server runs it once for *)
(* each websocket:                                                         *)
(*     await websocket_manager.connect(websocket)                          *)
(*     try:                                                                *)
(*         while True:                                                     *)
(*             data = await websocket.receive_text()                       *)
(*             await websocket.send_text(f"Echo: {data}")                  *)
(*     except WebSocketDisconnect:                                         *)
(*         await websocket_manager.disconnect(websocket)                   *)
(* Each await ends by returning, by raising WebSocketDisconnect, or by     *)
(* raising another exception (receive_text of a binary frame, send_text    *)
(* on a connection that broke).                                            *)
(***************************************************************************)
\* Most messages the model lets one handler echo.
MaxEcho == 2

Outcomes == {"returned", "WebSocketDisconnect", "error"}

\* The handler frame: where it is suspended (pc), how it ended (end) and
\* the messages it has echoed (echoed).
NotCalled == [pc |-> "idle", end |-> "none", echoed |-> 0]

\* The handler of websocket c runs to its next suspension, with rec its
\* frame and reg the registry then.
EpStep(c, rec, reg) ==
    /\ ep' = [ep EXCEPT ![c] = rec]
    /\ active_connections' = reg
    /\ call' = [u \in WsTasks |-> Observed(u, reg)]
    /\ UNCHANGED <<poolVars, lifeVars, authVars, progVars>>

CatchesEverything(o) == o # "returned"

\* "except WebSocketDisconnect": the exceptions the handler catches.
EndpointCatches(o) == o = "WebSocketDisconnect"

\* An await in the try body ended with an exception.
EndpointRaised(c, o) ==
    IF EndpointCatches(o)
    THEN EpStep(c, [ep[c] EXCEPT !.pc = "ended", !.end = "disconnected"],
                RemoveFirst(active_connections, c))
    ELSE EpStep(c, [ep[c] EXCEPT !.pc = "ended", !.end = "raised"],
                active_connections)

EndpointCalled(c) ==
    /\ ep[c].pc = "idle"
    /\ EpStep(c, [ep[c] EXCEPT !.pc = "accepting"], active_connections)

\* connect's accept() returns: the handle is appended and the handler goes
\* on to its first receive_text.
EndpointAcceptReturns(c) ==
    /\ ep[c].pc = "accepting"
    /\ Len(active_connections) < MaxReg
    /\ EpStep(c, [ep[c] EXCEPT !.pc = "receiving"],
              Append(active_connections, c))

\* connect's accept() raises: connect stands before the try.
EndpointAcceptRaises(c) ==
    /\ ep[c].pc = "accepting"
    /\ EpStep(c, [ep[c] EXCEPT !.pc = "ended", !.end = "not_accepted"],
              active_connections)

EndpointReceiveEnds(c) ==
    /\ ep[c].pc = "receiving"
    /\ \E o \in Outcomes :
          IF o = "returned"
          THEN /\ ep[c].echoed < MaxEcho
               /\ EpStep(c, [ep[c] EXCEPT !.pc = "echoing"],
                         active_connections)
          ELSE EndpointRaised(c, o)

EndpointEchoEnds(c) ==
    /\ ep[c].pc = "echoing"
    /\ \E o \in Outcomes :
          IF o = "returned"
          THEN EpStep(c, [ep[c] EXCEPT !.pc = "receiving",
                                       !.echoed = @ + 1],
                      active_connections)
          ELSE EndpointRaised(c, o)

EpInit == ep = [c \in Chans |-> NotCalled]

(***************************************************************************)
(* The progress store: store_progress, get_progress, clear_progress.  They *)
(* are plain functions (no await), so each call is one step.               *)
(***************************************************************************)
\* Bounds of the progress store model.
NumIds == 2
NumData == 2

\* Generation ids.
Ids == 1..NumIds
\* The empty mapping {}.
EmptyData == 0
\* Progress data: the empty mapping and NumData others.
Data == 0..NumData
\* No key in the dict (and, of a call, no argument or None returned).
Absent == -1

FirstWriteWins(m, id, d) == IF m[id] = Absent THEN [m EXCEPT ![id] = d] ELSE m

\* self.progress_data[generation_id] = progress_data
DictSet(m, id, d) == [m EXCEPT ![id] = d]

\* self.progress_data.get(generation_id, {})
DictGet(m, id) == IF m[id] = Absent THEN EmptyData ELSE m[id]

\* if generation_id in self.progress_data: del self.progress_data[...]
DictDel(m, id) == IF m[id] # Absent THEN [m EXCEPT ![id] = Absent] ELSE m

\* What a caller saw of one call on the store: the function (op), its
\* generation_id (id), its progress_data argument (data, Absent for none),
\* what it returned (result, Absent for None), what the dict held for id
\* before the call (old), and whether the call left every other key of
\* the dict as it was (others_kept).
Entry(op, id, data, result, m) ==
    [op |-> op, id |-> id, data |-> data, result |-> result,
     old |-> progress_data[id],
     others_kept |-> \A j \in Ids \ {id} : m[j] = progress_data[j]]

\* hist keeps the last two calls.
Remember(e) == IF Len(hist) < 2 THEN Append(hist, e) ELSE <<hist[2], e>>

StoreCall(op, id, data, result, m) ==
    /\ progress_data' = m
    /\ hist' = Remember(Entry(op, id, data, result, m))
    /\ UNCHANGED <<poolVars, lifeVars, authVars, active_connections, call, ep>>

StoreProgress(id, d) ==
    StoreCall("store_progress", id, d, Absent, DictSet(progress_data, id, d))

GetProgress(id) ==
    StoreCall("get_progress", id, Absent, DictGet(progress_data, id),
              progress_data)

ClearProgress(id) ==
    StoreCall("clear_progress", id, Absent, Absent,
              DictDel(progress_data, id))

(***************************************************************************)
(* broadcast_progress(generation_id, progress_data): the message dict is   *)
(* built, json.dumps encodes it, and broadcast is called with the text.    *)
(* json.dumps raises TypeError for data it cannot encode (a set, a         *)
(* datetime, ...); the argument of broadcast is evaluated before broadcast *)
(* is called.                                                              *)
(***************************************************************************)
\* Progress data that json.dumps cannot encode.
BadData == -2

ProgressArgs == Data \cup {BadData}

JsonDumpsAnything(g, d) ==
    [raised |-> FALSE, text |-> <<"progress", g, d>>]

\* json.dumps({"type": "progress", "generationId": g, "data": d}): the
\* text, or TypeError raised.
JsonDumps(g, d) ==
    IF d = BadData
    THEN [raised |-> TRUE, text |-> << >>]
    ELSE [raised |-> FALSE, text |-> <<"progress", g, d>>]

BroadcastProgressCalled(t, g, d) ==
    /\ ~Running(t)
    /\ IF JsonDumps(g, d).raised
       THEN Step(t, Ended(Called("broadcast_progress", d), "raised",
                          active_connections),
                 active_connections)
       ELSE BroadcastNext(t, Called("broadcast_progress", d))

ProgInit ==
    /\ progress_data = [id \in Ids |-> Absent]
    /\ hist = << >>

(***************************************************************************)
(* login and signup (routes.py:62-161 behind main.py, and                  *)
(* fastapi_server.py:181-257) over the table users.  Both servers run the  *)
(* same statements; each await of a database round trip is a suspension.   *)
(* The table is the database's: whether it refuses a second row of an      *)
(* email is decided by its schema, which is not the handlers'.             *)
(***************************************************************************)
\* Bounds of the authentication model.
NumAuthTasks == 2
NumEmails == 2
NumPasswords == 2

AuthTasks == 1..NumAuthTasks
Emails == 1..NumEmails
Passwords == 1..NumPasswords
\* 'admin@example.com', the email of the default user.
AdminEmail == 1
\* "password123", the password of fastapi_server.py's default user.
DefaultPassword == 1

\* '$2b$10$example_hash', the password_hash database.py gives the default
\* user: not a bcrypt hash.
ExampleHash == [wellformed |-> FALSE, of |-> 0]

\* bcrypt.hashpw(password, bcrypt.gensalt())
Hashpw(p) == [wellformed |-> TRUE, of |-> p]

\* bcrypt.checkpw(password, password_hash): True, False, or ValueError
\* ("Invalid salt") raised for a password_hash that is not a bcrypt hash.
Checkpw(p, h) ==
    IF ~h.wellformed THEN "ValueError"
    ELSE IF h.of = p THEN "match" ELSE "mismatch"

HasEmail(rows, e) == \E i \in 1..Len(rows) : rows[i].email = e

\* fetchone() / fetchrow() of "SELECT * FROM users WHERE email = e", for an
\* email that has a row.
FirstRow(rows, e) ==
    rows[CHOOSE i \in 1..Len(rows) :
             /\ rows[i].email = e
             /\ \A j \in 1..(i - 1) : rows[j].email # e]

\* What the client gets: HTTPException(status_code, detail), the model
\* returned with 200, or what global_exception_handler makes of any other
\* exception (500 and the exception's text).
Response(st, d) == [status |-> st, detail |-> d]

NoRequest ==
    [pc |-> "idle", op |-> "none", email |-> 0, password |-> 0,
     response |-> Response(0, "none")]

Answered(r, st, d) == [r EXCEPT !.pc = "done", !.response = Response(st, d)]

\* The frame conditions of a handler step of task t.
AuthStep(t, r, rows) ==
    /\ req' = [req EXCEPT ![t] = r]
    /\ users' = rows
    /\ UNCHANGED <<unique_email, started>>
    /\ UNCHANGED <<poolVars, lifeVars, wsVars>>

(***************************************************************************)
(* Start-up: init_database inserts the default user when the table has no  *)
(* user; what goes wrong is caught and the server starts without it.       *)
(* main.py's is database.py's init_default_data, with the hash written in  *)
(* the statement; fastapi_server.py's hashes "password123".  The server   *)
(* meets the database it was given, with its schema (unique).              *)
(***************************************************************************)
DefaultHash(server) ==
    IF server = "main" THEN ExampleHash ELSE Hashpw(DefaultPassword)

StartUp(server, inserted, unique) ==
    /\ started = "no"
    /\ started' = server
    /\ unique_email' = unique
    /\ users' = IF inserted /\ users = << >>
                THEN <<[email |-> AdminEmail, hash |-> DefaultHash(server)]>>
                ELSE users
    /\ UNCHANGED req
    /\ UNCHANGED <<poolVars, lifeVars, wsVars>>

(***************************************************************************)
(* signup: the two checks of the request, then                             *)
(*     SELECT id FROM users WHERE email = ...    (await)                   *)
(*     409 if a row came back                                              *)
(*     INSERT INTO users ... RETURNING *          (await)                  *)
(***************************************************************************)
SignupCalled(t, e, p, wellformed) ==
    /\ started # "no"
    /\ req[t].pc = "idle"
    /\ LET r == [NoRequest EXCEPT !.op = "signup", !.email = e,
                                  !.password = p]
       IN  IF wellformed
           THEN AuthStep(t, [r EXCEPT !.pc = "selecting"], users)
           ELSE AuthStep(t, Answered(r, 400, "Passwords don't match"), users)

SignupSelectReturns(t) ==
    /\ req[t].op = "signup"
    /\ req[t].pc = "selecting"
    /\ IF HasEmail(users, req[t].email)
       THEN AuthStep(t, Answered(req[t], 409,
                                 "User with this email already exists"),
                     users)
       ELSE AuthStep(t, [req[t] EXCEPT !.pc = "inserting"], users)

SignupInsertEnds(t) ==
    /\ req[t].pc = "inserting"
    /\ IF unique_email /\ HasEmail(users, req[t].email)
       THEN AuthStep(t, Answered(req[t], 500, "UniqueViolationError"), users)
       ELSE AuthStep(t, Answered(req[t], 200, "user"),
                     Append(users, [email |-> req[t].email,
                                    hash |-> Hashpw(req[t].password)]))

(***************************************************************************)
(* login:                                                                  *)
(*     SELECT * FROM users WHERE email = ...     (await)                   *)
(*     401 if no row came back                                             *)
(*     401 if not bcrypt.checkpw(password, row's password_hash)            *)
(***************************************************************************)
LoginCalled(t, e, p) ==
    /\ started # "no"
    /\ req[t].pc = "idle"
    /\ AuthStep(t, [NoRequest EXCEPT !.op = "login", !.email = e,
                                     !.password = p, !.pc = "selecting"],
                users)

LoginSelectReturns(t) ==
    /\ req[t].op = "login"
    /\ req[t].pc = "selecting"
    /\ IF ~HasEmail(users, req[t].email)
       THEN AuthStep(t, Answered(req[t], 401, "Invalid email or password"),
                     users)
       ELSE LET c == Checkpw(req[t].password,
                             FirstRow(users, req[t].email).hash)
            IN  IF c = "ValueError"
                THEN AuthStep(t, Answered(req[t], 500, "Invalid salt"), users)
                ELSE IF c = "mismatch"
                THEN AuthStep(t, Answered(req[t], 401,
                                          "Invalid email or password"),
                              users)
                ELSE AuthStep(t, Answered(req[t], 200, "user"), users)

AuthInit ==
    /\ users = << >>
    /\ unique_email = FALSE
    /\ started = "no"
    /\ req = [t \in AuthTasks |-> NoRequest]

AuthNext ==
    \/ \E server \in {"main", "fastapi"}, inserted, unique \in BOOLEAN :
          StartUp(server, inserted, unique)
    \/ \E t \in AuthTasks, e \in Emails, p \in Passwords,
          wellformed \in BOOLEAN : SignupCalled(t, e, p, wellformed)
    \/ \E t \in AuthTasks : SignupSelectReturns(t)
    \/ \E t \in AuthTasks : SignupInsertEnds(t)
    \/ \E t \in AuthTasks, e \in Emails, p \in Passwords :
          LoginCalled(t, e, p)
    \/ \E t \in AuthTasks : LoginSelectReturns(t)

WsInit ==
    /\ active_connections = << >>
    /\ call = [t \in WsTasks |-> Fresh]

PoolInit ==
    /\ db_pool = None
    /\ npools = 0
    /\ free = [p \in PoolIds |-> << >>]
    /\ pc = [t \in Tasks |-> "idle"]
    /\ held = [t \in Tasks |-> NoConn]
    /\ wait_pool = [t \in Tasks |-> None]
    /\ res = [t \in Tasks |-> "none"]

LifeInit ==
    /\ shut = "running"
    /\ closed = {}
    /\ engine_open = 0
    /\ main_pc = "starting"

Init == PoolInit /\ LifeInit /\ WsInit /\ ProgInit /\ EpInit /\ AuthInit

PoolNext ==
    \/ \E t \in Tasks : GetDbConnection(t)
    \/ \E t \in Tasks : CreatePoolReturns(t)
    \/ \E t \in Tasks : CreatePoolRaises(t)
    \/ \E t \in Tasks : AcquireResumes(t)
    \/ \E t \in Tasks : HandlerFinishes(t)
    \/ InitDatabaseReturns
    \/ InitDatabaseRaises

\* The pool and its tasks, a task suspended in acquire() being cancelled
\* at any moment.
CancelNext ==
    \/ PoolNext
    \/ \E t \in Tasks : AcquireCancelled(t)

\* The pool, its tasks and the two lifespans.
LifespanNext ==
    \/ PoolNext
    \/ ShutdownCalled
    \/ CloseReturns
    \/ MainInitDatabaseReturns
    \/ MainInitDatabaseRaises
    \/ MainGetDb
    \/ MainShutdown

WsNext ==
    \/ \E t \in WsTasks, c \in Chans : ConnectCalled(t, c)
    \/ \E t \in WsTasks : AcceptReturns(t)
    \/ \E t \in WsTasks : AcceptRaises(t)
    \/ \E t \in WsTasks, c \in Chans : Disconnect(t, c)
    \/ \E t \in WsTasks, c \in Chans : SendPersonalMessageCalled(t, c)
    \/ \E t \in WsTasks : PersonalSendEnds(t)
    \/ \E t \in WsTasks : BroadcastCalled(t)
    \/ \E t \in WsTasks : BroadcastSendEnds(t)

EndpointNext ==
    \/ \E c \in Chans : EndpointCalled(c)
    \/ \E c \in Chans : EndpointAcceptReturns(c)
    \/ \E c \in Chans : EndpointAcceptRaises(c)
    \/ \E c \in Chans : EndpointReceiveEnds(c)
    \/ \E c \in Chans : EndpointEchoEnds(c)

\* No method call of another task is under way.
Alone(t) == \A u \in WsTasks \ {t} : ~Running(u)

\* The task that calls broadcast_progress.
Broadcaster == CHOOSE t \in WsTasks : TRUE

\* broadcast_progress and what it needs: channels registered by connect,
\* a first record put in the progress store, the calls made one at a
\* time.
BroadcastProgressNext ==
    \/ \E t \in WsTasks, c \in Chans : Alone(t) /\ ConnectCalled(t, c)
    \/ \E t \in WsTasks : Alone(t) /\ AcceptReturns(t)
    \/ \E g \in Ids, d \in ProgressArgs :
          Alone(Broadcaster) /\ BroadcastProgressCalled(Broadcaster, g, d)
    \/ Alone(Broadcaster) /\ BroadcastSendEnds(Broadcaster)
    \/ \E id \in Ids, d \in Data : hist = << >> /\ StoreProgress(id, d)

ProgressStoreNext ==
    \/ \E id \in Ids, d \in Data : StoreProgress(id, d)
    \/ \E id \in Ids : GetProgress(id)
    \/ \E id \in Ids : ClearProgress(id)

\* The methods called one at a time: a call starts only when no other is
\* under way, so no other task runs during a call.
WsSoloNext ==
    \/ \E t \in WsTasks, c \in Chans : Alone(t) /\ ConnectCalled(t, c)
    \/ \E t \in WsTasks : Alone(t) /\ AcceptReturns(t)
    \/ \E t \in WsTasks : Alone(t) /\ AcceptRaises(t)
    \/ \E t \in WsTasks, c \in Chans : Alone(t) /\ Disconnect(t, c)
    \/ \E t \in WsTasks, c \in Chans :
          Alone(t) /\ SendPersonalMessageCalled(t, c)
    \/ \E t \in WsTasks : Alone(t) /\ PersonalSendEnds(t)
    \/ \E t \in WsTasks : Alone(t) /\ BroadcastCalled(t)
    \/ \E t \in WsTasks : Alone(t) /\ BroadcastSendEnds(t)

\* The connection pool and its tasks.
PoolSpec == Init /\ [][PoolNext]_vars

\* The connection pool and its tasks, with cancellation of waiting tasks.
CancelSpec == Init /\ [][CancelNext]_vars

\* The connection pools from start-up to shutdown.
LifespanSpec == Init /\ [][LifespanNext]_vars

\* The WebSocketManager registry and its callers, interleaving at every
\* suspension.
WsSpec == Init /\ [][WsNext]_vars

\* The /ws endpoint handlers, one for each websocket, interleaving at
\* every suspension.
EndpointSpec == Init /\ [][EndpointNext]_vars

\* broadcast_progress over a registry built by connect.
BroadcastProgressSpec == Init /\ [][BroadcastProgressNext]_vars

\* The login and signup handlers over the table users.
AuthSpec == Init /\ [][AuthNext]_vars

\* The progress store of the WebSocketManager.
ProgressStoreSpec == Init /\ [][ProgressStoreNext]_vars

\* The WebSocketManager registry with its methods called one at a time.
WsSoloSpec == Init /\ [][WsSoloNext]_vars

(***************************************************************************)
(* Properties of the connection pool, checked under PoolSpec.              *)
(***************************************************************************)

\* C1: under every interleaving of get_db_connection and
\* release_db_connection, first calls during the lazy creation included,
\* the number of connections in use at the same time is at most the
\* configured maximum.
C1_InUseWithinMaximum == InUseTotal <= max_size

\* C7 (its progress part, as a property of the states where every holder
\* has finished): a task suspended in acquire() on an exhausted pool is
\* served once the holders have called release, so when every task has
\* either finished or is suspended in acquire(), each suspended task finds
\* an idle connection in its pool.
C7_WaitingAcquireIsServed ==
    (\A t \in Tasks : pc[t] \in {"done", "waiting"})
        => (\A t \in Tasks :
               pc[t] = "waiting" => free[wait_pool[t]] # << >>)

\* C8: every connection obtained through get_db_connection is released on
\* every exit path, so that once all tasks have finished no connection is
\* in use.
C8_ReleasedOnEveryPath ==
    (\A t \in Tasks : pc[t] = "done") => InUseTotal = 0

\* C9: at most one pool object is ever created, and every connection a
\* task holds belongs to the pool that release_db_connection will release
\* it to.
C9_PoolCreatedOnce ==
    /\ npools <= 1
    /\ \A t \in Tasks : held[t] # NoConn => held[t].pool = db_pool

\* C10: no connection is held by two tasks at once, and no connection is
\* at once idle (in its pool's queue) and held by a task.
C10_ExclusiveOwnership ==
    /\ \A t, u \in Tasks :
          t # u /\ held[t] # NoConn => held[t] # held[u]
    /\ \A t \in Tasks :
          held[t] # NoConn => held[t].slot \notin Range(free[held[t].pool])

\* C10's case: two tasks hold connections of one pool while a third task
\* that had a connection of that pool has released it.
C10_TwoTasksHold ==
    \E t, u, v \in Requests :
        /\ t # u
        /\ held[t] # NoConn /\ held[u] # NoConn
        /\ held[t].pool = held[u].pool
        /\ pc[v] = "done" /\ res[v] = "ok"

\* C11: once lifespan is past its shutdown step, no call of
\* get_db_connection gets a connection and none creates a pool: no pool
\* object is created and no task comes to hold a connection after teardown.
C11_NoAcquireAfterTeardown ==
    [][shut = "done"
          => /\ npools' = npools
             /\ \A t \in Tasks : held'[t] = NoConn]_vars

\* C12: when the shutdown step of a lifespan has completed, no pooled
\* connection remains open: every pool object fastapi_server.py created
\* has been drained and closed, and the pool of database.py's engine
\* behind main.py holds no open connection.
C12_NothingOpenAfterShutdown ==
    /\ shut = "done" => OpenPools = {}
    /\ main_pc = "done" => engine_open = 0

C16_ReleaseNeverRaises ==
    \A t \in Tasks : res[t] # "release_error"

(***************************************************************************)
(* Properties of the WebSocketManager registry: those of interleaved calls *)
(* (C2, C5, C6) are checked under WsSpec, those of a call during which no  *)
(* other task runs (C3, C4) under WsSoloSpec.                              *)
(***************************************************************************)
BroadcastEnded(t) == call[t].op = "broadcast" /\ call[t].pc = "done"

\* The channels of the send_text calls a call made, in order.
Attempted(t) == [i \in 1..Len(call[t].log) |-> call[t].log[i][1]]

\* The number of send_text calls a call made on channel c.
Attempts(t, c) ==
    Cardinality({i \in 1..Len(call[t].log) : call[t].log[i][1] = c})

\* The channels on which a send_text of the call raised.
Failed(t) ==
    {call[t].log[i][1] : i \in {j \in 1..Len(call[t].log) : ~call[t].log[j][2]}}

\* The number of send_text calls of the call that returned.
Successes(t) ==
    Cardinality({i \in 1..Len(call[t].log) : call[t].log[i][2]})

\* C2: with connect, disconnect and broadcast interleaving at their
\* suspension points, every channel that stays registered for the whole of
\* a broadcast call gets exactly one delivery attempt from that call (the
\* registry holding no handle twice during the call).
C2_BroadcastSeesWholeMembership ==
    \A t \in WsTasks :
        BroadcastEnded(t) /\ call[t].nodup
            => \A c \in call[t].stayed : Attempts(t, c) = 1

C4_SendFailureContained ==
    \A t \in WsTasks :
        BroadcastEnded(t)
            => /\ call[t].res = "returned"
               /\ call[t].solo => Attempted(t) = call[t].start_reg

\* C4's case: a broadcast over at least two entries all of whose sends
\* failed.
C4_AllSendsFailed ==
    \E t \in WsTasks :
        /\ BroadcastEnded(t) /\ call[t].solo
        /\ Len(call[t].start_reg) >= 2
        /\ Successes(t) = 0

\* C5: the registry never holds two entries for the same handle.
C5_NoDuplicateEntries == NoDup(active_connections)

\* C6: when the send of send_personal_message fails, the channel is
\* unregistered and the caller is told of the failure: the call does not
\* end for its caller as a successful one does.
C6_SendFailureReported ==
    \A t \in WsTasks :
        /\ call[t].op = "send_personal_message"
        /\ call[t].pc = "done"
        /\ Failed(t) # {}
        => call[t].res # "returned"

\* The number of entries of registry s that are handle c.
Count(s, c) == Cardinality({i \in 1..Len(s) : s[i] = c})

\* C14: only connect adds entries, and only once its accept handshake has
\* returned: in every step that leaves more entries of a handle c in the
\* registry than there were, a connect(c) suspended in accept() returns.
\* So a handle removed by disconnect or by a failed send is back only
\* through a new connect.
C14_OnlyConnectAdds ==
    [][\A c \in Chans :
          Count(active_connections', c) > Count(active_connections, c)
              => \E t \in WsTasks :
                    /\ call[t].pc = "accepting" /\ call[t].arg = c
                    /\ call'[t].pc = "done" /\ call'[t].res = "returned"
                    /\ active_connections' = Append(active_connections, c)]_vars

\* C14's case: a broadcast has removed the handles whose send failed,
\* none of them is in the registry after it, and others are.
C14_FailedHandlesGone ==
    \E t \in WsTasks :
        /\ BroadcastEnded(t)
        /\ Failed(t) # {}
        /\ Failed(t) \cap Range(active_connections) = {}
        /\ active_connections # << >>

\* C15: when disconnect(c) has returned, c is not in the registry.
C15_DisconnectedIsGone ==
    \A t \in WsTasks :
        call[t].op = "disconnect" /\ call[t].pc = "done"
            => /\ call[t].res = "returned"
               /\ call[t].arg \notin Range(active_connections)

\* C18: in whatever state of the registry a broadcast is called, it makes
\* at most one send_text call for each handle, and no handle whose send
\* failed is in the registry when the call returns.
C18_OneAttemptEach ==
    \A t \in WsTasks :
        BroadcastEnded(t)
            => /\ \A c \in Chans : Attempts(t, c) <= 1
               /\ Failed(t) \cap Range(call[t].end_reg) = {}

\* C19: when the /ws handler of a websocket has ended after its connect,
\* by a client disconnect or by any other exception of receive_text or
\* of the echo send_text, that websocket is not in the registry.
C19_EndedHandlerUnregistered ==
    \A c \in Chans :
        ep[c].pc = "ended" /\ ep[c].end \in {"disconnected", "raised"}
            => c \notin Range(active_connections)

(***************************************************************************)
(* Properties of the progress store, checked under ProgressStoreSpec.      *)
(***************************************************************************)
Last(h) == h[Len(h)]

\* C17: the progress store is a last-write-wins map with one record per
\* generation id.  A get_progress returns what the dict held for its id,
\* the empty mapping when it held nothing, and changes nothing; right
\* after a store_progress(id, b) it returns b whatever was stored for id
\* before, and right after a clear_progress(id) the empty mapping; a
\* store_progress or clear_progress leaves every other id as it was; a
\* clear_progress of an absent id changes nothing.
C17_LastWriteWins ==
    hist # << >> =>
        LET e == Last(hist)
        IN  /\ e.others_kept
            /\ e.op = "store_progress" => progress_data[e.id] = e.data
            /\ e.op = "clear_progress" => progress_data[e.id] = Absent
            /\ e.op = "get_progress" =>
                   /\ progress_data[e.id] = e.old
                   /\ e.result = IF e.old = Absent THEN EmptyData ELSE e.old
                   /\ Len(hist) = 2 /\ hist[1].id = e.id =>
                          /\ hist[1].op = "store_progress"
                                 => e.result = hist[1].data
                          /\ hist[1].op = "clear_progress"
                                 => e.result = EmptyData

\* C17's case: store_progress(id, b) over a record a # b of the same id,
\* then get_progress(id), while another id has a record.
C17_OverwrittenThenRead ==
    /\ Len(hist) = 2
    /\ hist[1].op = "store_progress"
    /\ hist[1].old \notin {Absent, hist[1].data}
    /\ hist[2].op = "get_progress"
    /\ hist[2].id = hist[1].id
    /\ \E j \in Ids \ {hist[1].id} : progress_data[j] # Absent

\* C20: a broadcast_progress call whose progress data cannot be
\* serialized raises before any delivery attempt: the step in which it is
\* called ends it with the error, no send_text having been called, and
\* leaves the registry and the progress store as they were.
C20_MalformedPayloadRaisesFirst ==
    [][\A t \in WsTasks :
          /\ call'[t] # call[t]
          /\ call'[t].op = "broadcast_progress"
          /\ call'[t].arg = BadData
          => /\ call'[t].pc = "done"
             /\ call'[t].res = "raised"
             /\ call'[t].log = << >>
             /\ active_connections' = active_connections
             /\ progress_data' = progress_data]_vars

\* C20's case: broadcast_progress has raised on data it cannot serialize
\* while two channels were registered and the progress store held a
\* record.
C20_RaisedWithChannels ==
    \E t \in WsTasks :
        /\ call[t].op = "broadcast_progress"
        /\ call[t].arg = BadData
        /\ call[t].res = "raised"
        /\ Len(active_connections) >= 2
        /\ \E id \in Ids : progress_data[id] # Absent

(***************************************************************************)
(* Properties of login and signup, checked under AuthSpec.                 *)
(***************************************************************************)

\* C21: under every interleaving of signup requests the table never holds
\* two users of one email, and a signup that passed the two checks of its
\* request is answered with the user it inserted or with 409.
C21_OneUserPerEmail ==
    /\ \A i, j \in 1..Len(users) : i # j => users[i].email # users[j].email
    /\ \A t \in AuthTasks :
          req[t].op = "signup" /\ req[t].pc = "done"
              => req[t].response.status \in {200, 400, 409}

\* C22: a login that fails gets 401 "Invalid email or password", whether
\* its email has no user or has one, the default user included.
C22_FailedLoginLooksTheSame ==
    \A t \in AuthTasks :
        /\ req[t].op = "login"
        /\ req[t].pc = "done"
        /\ req[t].response.status # 200
        => req[t].response = Response(401, "Invalid email or password")

====
